---- MODULE Spec2Model ----
(***************************************************************************)
(* GlueUi: the immediate-mode widget engine of src/GlueUi.py (UiManager),  *)
(* driven as src/examples/helloworld.py drives it.                         *)
(*                                                                         *)
(* Strings are sequences of one-character strings, so that len() is      *)
(* computed.  A python dict is a function whose DOMAIN is the set of keys. *)
(* An exception leaves the engine in the state reached when it was raised. *)
(* The backend (SDL2 / SDL_ttf) is modelled by the calls the               *)
(* engine issues to it: `calls` logs, in order, every SDL_FillRect and     *)
(* SDL_BlitSurface on the window surface and every OnClick invocation made *)
(* by the last engine operation; `ret` holds what that operation returned  *)
(* or raised.                                                              *)
(***************************************************************************)
EXTENDS Integers, Sequences, FiniteSets, TLC

VARIABLES
    phase,            \* "up": constructed; "quit": Quit() ran; "crashed": the process died in SDL_ttf
    Running,          \* self.Running
    Fonts,            \* self.Fonts: name -> font handle (NullFont when TTF_OpenFont failed)
    nextHandle,       \* the handle the next successful TTF_OpenFont returns
    closed,           \* handle -> number of TTF_CloseFont calls made on it
    Buttons,          \* self.Buttons: label -> record
    CheckboxStates,   \* self.CheckboxStates: label -> record
    IsDarkMode,       \* self.IsDarkMode
    mouse,            \* what SDL_GetMouseState reports: cursor X, Y and the left button
    ret,              \* the last operation: its name, arguments, result or exception
    calls,            \* surface draws and callback invocations of the last operation, in order
    seenUp,           \* history of RunLabel: a Button call of it has returned with the left button up
    btnLast,          \* history of RunLabel: hovered and button-down of its last Button call, if that call returned
    cbLast,           \* history of CbRunLabel: hovered and button-down of its last Checkbox call, if that call returned
    btnRun,           \* history of RunLabel: the [down,down,up,down] observer
    cbRun,            \* history of CbRunLabel: the [down,down(held),up] observer
    switches,         \* history: number of SwitchMode invocations, modulo 2
    Point, RectPos, RectSize, inside,  \* arguments and result of PointInsideRect
    prevLeft,         \* history of frames: the left button in the preceding frame (up before the first)
    frameCalls,       \* history of frames: Button calls of RunLabel that returned in this frame, 2 for more
    lastFrame,        \* history of frames: a Button call of RunLabel returned in the preceding frame
    dragPress,        \* history of frames: the press being held was first sampled by RunLabel's button off the button
    cbPressFlips      \* history of frames: flips of CbRunLabel's checked during the press being held, 2 for more

vars == <<phase, Running, Fonts, nextHandle, closed, Buttons, CheckboxStates,
          IsDarkMode, mouse, ret, calls, seenUp, btnLast, cbLast, btnRun, cbRun, switches,
          Point, RectPos, RectSize, inside,
          prevLeft, frameCalls, lastFrame, dragPress, cbPressFlips>>

engineVars == <<phase, Running, Fonts, nextHandle, closed, Buttons, CheckboxStates,
                IsDarkMode, mouse, ret, calls, seenUp, btnLast, cbLast, btnRun, cbRun, switches>>

geomVars == <<Point, RectPos, RectSize, inside>>

frameVars == <<prevLeft, frameCalls, lastFrame, dragPress, cbPressFlips>>

-----------------------------------------------------------------------------
(* Bounds of the model *)

\* TTF_OpenFont succeeds at most this many times in the widget specifications
MaxLoopOpens == 1
\* TTF_OpenFont succeeds at most this many times in the font-registry specification
MaxOpens == 2
\* coordinates of PointInsideRect's arguments range over 0..MaxCoord
MaxCoord == 3

-----------------------------------------------------------------------------
(* Values *)

Nat2(X, Y) == [X |-> X, Y |-> Y]

\* Nat2.__add__ with a Nat2
Nat2Add(a, b) == Nat2(a.X + b.X, a.Y + b.Y)

\* Nat2.__add__ with an int
Nat2AddInt(a, k) == Nat2(a.X + k, a.Y + k)

Rect_(XY, WH) == [XY |-> XY, WH |-> WH]

\* Vec4 with its components in thousandths (0.922 is 922); W defaults to 1
Vec4(X, Y, Z) == [X |-> X, Y |-> Y, Z |-> Z, W |-> 1000]

\* int(component * 255) per channel
ToSdl2Color(c) ==
    [r |-> (c.X * 255) \div 1000, g |-> (c.Y * 255) \div 1000,
     b |-> (c.Z * 255) \div 1000, a |-> (c.W * 255) \div 1000]

ColorPalette ==
    << Vec4(0, 922, 451), Vec4(0, 780, 376), Vec4(0, 620, 298),
       Vec4(0, 459, 224), Vec4(0, 302, 149) >>

\* list[::-1]
Reversed(l) == [i \in 1..Len(l) |-> l[Len(l) + 1 - i]]

\* mutant: the light palette is the dark one rotated by one instead of reversed
ColorPaletteModeRotated(dark) ==
    IF ~dark THEN Tail(ColorPalette) \o <<Head(ColorPalette)>> ELSE ColorPalette

ColorPaletteMode(dark) == IF ~dark THEN Reversed(ColorPalette) ELSE ColorPalette

\* mutant: negative indices rejected
PyIndexOkNonNegative(l, idx) == 0 <= idx /\ idx < Len(l)

\* list[idx] of python: defined for -len <= idx < len, IndexError otherwise
PyIndexOk(l, idx) == -Len(l) <= idx /\ idx < Len(l)

PyIndex(l, idx) == IF idx >= 0 THEN l[idx + 1] ELSE l[Len(l) + idx + 1]

\* a TTF_Font*: the handle's identity and the point size it was opened with
Font(h, size) == [h |-> h, size |-> size]

\* the NULL pointer TTF_OpenFont returns on failure
NullFont == Font(0, 0)

\* TTF_OpenFont: the files that exist and parse
GoodFiles == {"Fonts/GeistMonoLight.ttf"}

AllFiles == GoodFiles \cup {"Fonts/missing.ttf"}

FontNames == {"Medium", "Large"}

S_ok == <<"o", "k">>
S_menu == <<"m", "e", "n", "u">>
S_a_b == <<"a", "\n", "\n", "b">>

Labels == {S_ok, S_menu}

\* the button label and the checkbox label whose calls the history variables follow
RunLabel == S_ok

CbRunLabel == S_ok

Positions == {Nat2(100, 100), Nat2(100, 160)}

\* cursor samples: the top-left corner of the padded button at (100,100), and the
\* bottom-right corner of the checkbox at (100,160)
Cursors == {Nat2(90, 90), Nat2(120, 180)}

MouseStates == {[X |-> c.X, Y |-> c.Y, left |-> b] : c \in Cursors, b \in BOOLEAN}

NoRet == [op |-> "none", raised |-> ""]

EmptyDict == [k \in {} |-> 0]

\* history: what is known of a label's previous call
Sample(hovered, down) == [known |-> TRUE, hovered |-> hovered, down |-> down]

NoSample == [known |-> FALSE, hovered |-> FALSE, down |-> FALSE]

\* mutant: the assignment drops the other keys
DictSetAlone(d, k, v) == [x \in {k} |-> v]

\* d[k] = v of a python dict
DictSet(d, k, v) == [x \in DOMAIN d \cup {k} |-> IF x = k THEN v ELSE d[x]]

-----------------------------------------------------------------------------
(* Primitives: what UiManager.Rect and UiManager.Text do, as outcomes       *)
(* [raised, draws, rect].  raised = "" is a normal return; "crash" is the  *)
(* process dying inside SDL_ttf on a NULL font.                            *)

Ok(draws) == [raised |-> "", draws |-> draws]

Raise(e) == [raised |-> e, draws |-> << >>]

\* TTF_RenderUTF8_Blended of a monospaced face: the surface's w and h
MeasureText(Str, font) == Nat2(Len(Str) * (font.size \div 2), font.size)

\* UiManager.Rect
RectOutcome(Pos, Size, ColorIdx, dark) ==
    IF ~PyIndexOk(ColorPaletteMode(dark), ColorIdx)
    THEN Raise("IndexError")
    ELSE Ok(<< [kind |-> "rect", pos |-> Pos, size |-> Size,
                color |-> ToSdl2Color(PyIndex(ColorPaletteMode(dark), ColorIdx))] >>)

\* mutant: the text is blitted also when NoDraw is set
TextOutcomeBlitAlways(Str, Pos, FontName, ColorIdx, NoDraw, dark, fonts, ub) ==
    IF ~PyIndexOk(ColorPaletteMode(dark), ColorIdx) THEN Raise("IndexError")
    ELSE IF DOMAIN fonts = {} THEN Raise("RuntimeError")
    ELSE IF FontName \notin DOMAIN fonts THEN Raise("KeyError")
    ELSE IF fonts[FontName] = NullFont
         THEN Raise(IF ub = "crash" THEN "crash" ELSE "RuntimeError")
    ELSE IF Str = << >> THEN Raise("RuntimeError")
    ELSE [raised |-> "",
          rect   |-> Rect_(Pos, MeasureText(Str, fonts[FontName])),
          draws  |-> << [kind |-> "text", str |-> Str, pos |-> Pos,
                         size |-> MeasureText(Str, fonts[FontName]),
                         color |-> ToSdl2Color(PyIndex(ColorPaletteMode(dark), ColorIdx))] >>]

\* UiManager.Text; ub is what dereferencing a NULL font does: "error" or "crash"
TextOutcome(Str, Pos, FontName, ColorIdx, NoDraw, dark, fonts, ub) ==
    IF ~PyIndexOk(ColorPaletteMode(dark), ColorIdx) THEN Raise("IndexError")
    ELSE IF DOMAIN fonts = {} THEN Raise("RuntimeError")
    ELSE IF FontName \notin DOMAIN fonts THEN Raise("KeyError")
    ELSE IF fonts[FontName] = NullFont
         THEN Raise(IF ub = "crash" THEN "crash" ELSE "RuntimeError")
    ELSE IF Str = << >> THEN Raise("RuntimeError")
    ELSE [raised |-> "",
          rect   |-> Rect_(Pos, MeasureText(Str, fonts[FontName])),
          draws  |-> IF NoDraw THEN << >>
                     ELSE << [kind |-> "text", str |-> Str, pos |-> Pos,
                              size |-> MeasureText(Str, fonts[FontName]),
                              color |-> ToSdl2Color(PyIndex(ColorPaletteMode(dark), ColorIdx))] >>]

\* the outcomes a NULL font can have in this state
UbOutcomes(fonts) ==
    IF \E n \in DOMAIN fonts : fonts[n] = NullFont THEN {"error", "crash"} ELSE {"error"}

\* statements run in order: the draws issued up to the first one that raises
RECURSIVE RunDraws(_)
RunDraws(outs) ==
    IF outs = << >> THEN Ok(<< >>)
    ELSE IF Head(outs).raised # "" THEN Raise(Head(outs).raised)
    ELSE LET rest == RunDraws(Tail(outs))
         IN  [raised |-> rest.raised, draws |-> Head(outs).draws \o rest.draws]

\* mutant: the right and bottom edges excluded
PointInsideRectHalfOpen(P, Pos, Size) ==
    Pos.X <= P.X /\ P.X < Pos.X + Size.X /\ Pos.Y <= P.Y /\ P.Y < Pos.Y + Size.Y

\* UiManager.PointInsideRect
PointInsideRect(P, Pos, Size) ==
    Pos.X <= P.X /\ P.X <= Pos.X + Size.X /\ Pos.Y <= P.Y /\ P.Y <= Pos.Y + Size.Y

\* UiManager.GetCursorPosition
GetCursorPosition == Nat2(mouse.X, mouse.Y)

\* UiManager.RectIsHover
RectIsHover(TRect) == PointInsideRect(GetCursorPosition, TRect.XY, TRect.WH)

\* UiManager.IsClick("Left")
IsClick == mouse.left

\* UiManager.RectBorder: the four strips, in the order drawn
RectBorder(Pos, Size, ColorIdx, Thickness, dark) ==
    << RectOutcome(Pos, Nat2(Size.X, Thickness), ColorIdx, dark),
       RectOutcome(Pos, Nat2(Thickness, Size.Y), ColorIdx, dark),
       RectOutcome(Nat2(Pos.X, Pos.Y + Size.Y - Thickness), Nat2(Size.X, Thickness), ColorIdx, dark),
       RectOutcome(Nat2(Pos.X + Size.X - Thickness, Pos.Y), Nat2(Thickness, Size.Y), ColorIdx, dark) >>

-----------------------------------------------------------------------------
(* Init: the state UiManager.__init__ leaves *)

Init ==
    /\ phase = "up"
    /\ Running = TRUE
    /\ Fonts = EmptyDict
    /\ nextHandle = 1
    /\ closed = EmptyDict
    /\ Buttons = EmptyDict
    /\ CheckboxStates = EmptyDict
    /\ IsDarkMode = TRUE
    /\ mouse \in MouseStates
    /\ ret = NoRet
    /\ calls = << >>
    /\ seenUp = FALSE
    /\ btnLast = NoSample
    /\ cbLast = NoSample
    /\ btnRun = << >>
    /\ cbRun = << >>
    /\ switches = 0
    /\ Point = Nat2(0, 0)
    /\ RectPos = Nat2(0, 0)
    /\ RectSize = Nat2(0, 0)
    /\ inside = "unset"
    /\ prevLeft = FALSE
    /\ frameCalls = 0
    /\ lastFrame = FALSE
    /\ dragPress = FALSE
    /\ cbPressFlips = 0

\* the process state after an operation with the given outcome
PhaseAfter(raised) == IF raised = "crash" THEN "crashed" ELSE phase

-----------------------------------------------------------------------------
(* Font registry *)

\* UiManager.LoadFont; limit bounds the successful opens
LoadFont(Filepath, Name, Size, Bold, ub, limit) ==
    /\ phase = "up"
    /\ Filepath \in GoodFiles => nextHandle <= limit
    /\ LET FontV == IF Filepath \in GoodFiles THEN Font(nextHandle, Size) ELSE NullFont
           \* TTF_SetFontStyle dereferences the font: on NULL the process may die
           died == Bold /\ FontV = NullFont /\ ub = "crash"
       IN  /\ nextHandle' = IF FontV = NullFont THEN nextHandle ELSE nextHandle + 1
           /\ Fonts' = IF died THEN Fonts ELSE DictSet(Fonts, Name, FontV)
           /\ phase' = IF died THEN "crashed" ELSE phase
           /\ ret' = [op |-> "LoadFont", Name |-> Name,
                      raised |-> IF died THEN "crash"
                                 ELSE IF FontV = NullFont THEN "RuntimeError" ELSE ""]
    /\ calls' = << >>
    /\ UNCHANGED <<Running, closed, Buttons, CheckboxStates, IsDarkMode, mouse,
                   seenUp, btnLast, cbLast, btnRun, cbRun, switches>>
    /\ UNCHANGED geomVars

\* UiManager.Quit: TTF_CloseFont on the value of every key of self.Fonts
Quit ==
    /\ phase = "up"
    /\ closed' = [f \in {Fonts[n] : n \in DOMAIN Fonts} |->
                     Cardinality({n \in DOMAIN Fonts : Fonts[n] = f})]
    /\ phase' = "quit"
    /\ ret' = [op |-> "Quit", raised |-> ""]
    /\ calls' = << >>
    /\ UNCHANGED <<Running, Fonts, nextHandle, Buttons, CheckboxStates, IsDarkMode, mouse,
                   seenUp, btnLast, cbLast, btnRun, cbRun, switches>>
    /\ UNCHANGED geomVars

-----------------------------------------------------------------------------
(* Frame loop and palette mode *)

\* UiManager.MainLoop: SDL_PollEvent pumps the event queue, which is when the
\* mouse state SDL_GetMouseState reports changes; SDL_QUIT clears Running
MainLoop(newMouse, quitEvent) ==
    /\ phase = "up"
    /\ Running
    /\ mouse' = newMouse
    /\ Running' = IF quitEvent THEN FALSE ELSE Running
    /\ ret' = [op |-> "MainLoop", raised |-> ""]
    /\ calls' = << >>
    /\ UNCHANGED <<phase, Fonts, nextHandle, closed, Buttons, CheckboxStates, IsDarkMode,
                   seenUp, btnLast, cbLast, btnRun, cbRun, switches>>
    /\ UNCHANGED geomVars

\* UiManager.SwitchMode called by the application
SwitchMode ==
    /\ phase = "up"
    /\ Running
    /\ IsDarkMode' = ~IsDarkMode
    /\ switches' = (switches + 1) % 2
    /\ ret' = [op |-> "SwitchMode", raised |-> ""]
    /\ calls' = << >>
    /\ UNCHANGED <<phase, Running, Fonts, nextHandle, closed, Buttons, CheckboxStates, mouse,
                   seenUp, btnLast, cbLast, btnRun, cbRun>>
    /\ UNCHANGED geomVars

-----------------------------------------------------------------------------
(* Primitive draw calls made by the application *)

\* UiManager.Rect called by the application
Rect(Pos, Size, ColorIdx) ==
    /\ phase = "up"
    /\ Running
    /\ LET out == RectOutcome(Pos, Size, ColorIdx, IsDarkMode)
       IN  /\ calls' = out.draws
           /\ ret' = [op |-> "Rect", Pos |-> Pos, Size |-> Size, ColorIdx |-> ColorIdx,
                      raised |-> out.raised]
    /\ UNCHANGED <<phase, Running, Fonts, nextHandle, closed, Buttons, CheckboxStates,
                   IsDarkMode, mouse, seenUp, btnLast, cbLast, btnRun, cbRun, switches>>
    /\ UNCHANGED geomVars

\* UiManager.Text called by the application
Text(Str, Pos, FontName, ColorIdx, NoDraw, ub) ==
    /\ phase = "up"
    /\ Running
    /\ LET out == TextOutcome(Str, Pos, FontName, ColorIdx, NoDraw, IsDarkMode, Fonts, ub)
       IN  /\ calls' = out.draws
           /\ phase' = PhaseAfter(out.raised)
           /\ ret' = IF out.raised = ""
                     THEN [op |-> "Text", Str |-> Str, Pos |-> Pos, FontName |-> FontName,
                           ColorIdx |-> ColorIdx, NoDraw |-> NoDraw, raised |-> "",
                           rect |-> out.rect]
                     ELSE [op |-> "Text", Str |-> Str, Pos |-> Pos, FontName |-> FontName,
                           ColorIdx |-> ColorIdx, NoDraw |-> NoDraw, raised |-> out.raised]
    /\ UNCHANGED <<Running, Fonts, nextHandle, closed, Buttons, CheckboxStates,
                   IsDarkMode, mouse, seenUp, btnLast, cbLast, btnRun, cbRun, switches>>
    /\ UNCHANGED geomVars

\* str.split("\n"): the pieces between the newlines, empty pieces included
RECURSIVE Split(_)
Split(Str) ==
    IF \A i \in 1..Len(Str) : Str[i] # "\n" THEN << Str >>
    ELSE LET k == CHOOSE i \in 1..Len(Str) :
                     Str[i] = "\n" /\ \A j \in 1..(i - 1) : Str[j] # "\n"
         IN  << SubSeq(Str, 1, k - 1) >> \o Split(SubSeq(Str, k + 1, Len(Str)))

\* mutant: the lines numbered after the empty ones are dropped
EnumerateNonEmpty(Strings) ==
    LET ne == SelectSeq(Strings, LAMBDA l : l # << >>)
    IN  [i \in 1..Len(ne) |-> [Idx |-> i - 1, String |-> ne[i]]]

\* enumerate(Strings)
Enumerate(Strings) == [i \in 1..Len(Strings) |-> [Idx |-> i - 1, String |-> Strings[i]]]

\* UiManager.TextWrapped
TextWrapped(Str, Pos, FontName, ColorIdx, ub) ==
    /\ phase = "up"
    /\ Running
    /\ \E Strings \in {Enumerate(Split(Str))} :
       \E D \in {RunDraws([i \in 1..Len(Strings) |->
                              IF Strings[i].String = << >> THEN Ok(<< >>)
                              ELSE TextOutcome(Strings[i].String,
                                               Nat2Add(Pos, Nat2(0, Strings[i].Idx * 16)),
                                               FontName, ColorIdx, FALSE,
                                               IsDarkMode, Fonts, ub)])} :
          /\ calls' = D.draws
          /\ phase' = PhaseAfter(D.raised)
          /\ ret' = [op |-> "TextWrapped", Str |-> Str, Pos |-> Pos, FontName |-> FontName,
                     ColorIdx |-> ColorIdx, raised |-> D.raised]
    /\ UNCHANGED <<Running, Fonts, nextHandle, closed, Buttons, CheckboxStates,
                   IsDarkMode, mouse, seenUp, btnLast, cbLast, btnRun, cbRun, switches>>
    /\ UNCHANGED geomVars

-----------------------------------------------------------------------------
(* Button *)

\* mutant: a new label starts as not pressed
NewButtonRecordReleased == [active |-> TRUE, mouse_down |-> TRUE, prev_mouse_down |-> FALSE]

\* the record a label gets on its first Button call
NewButtonRecord == [active |-> TRUE, mouse_down |-> TRUE, prev_mouse_down |-> TRUE]

\* mutant: the text rectangle grown by 20 without moving its top-left corner
ButtonRectOfUnshifted(TextRect) == Rect_(TextRect.XY, Nat2AddInt(TextRect.WH, 20))

\* the text rectangle padded by 10 on every side
ButtonRectOf(TextRect) == Rect_(Nat2AddInt(TextRect.XY, -10), Nat2AddInt(TextRect.WH, 20))

\* mutant: a click registers while the record says pressed
ClickFiresWhenRecordHeld(hovered, mouse_down, rec) ==
    hovered /\ mouse_down /\ rec.prev_mouse_down

\* mutant: a click registers on every hovered frame with the button down
ClickFiresWhileHeld(hovered, mouse_down, rec) == hovered /\ mouse_down

\* a click registers when hovered and the mouse goes from "not pressed" to "pressed"
ClickFires(hovered, mouse_down, rec) == hovered /\ mouse_down /\ ~rec.prev_mouse_down

\* mutant: the record forgets the press
ButtonRecordReleased(rec, mouse_down) == [rec EXCEPT !.prev_mouse_down = FALSE]

\* mutant: the record is not updated
ButtonRecordStale(rec, mouse_down) == rec

\* the record at the end of a call that returns
ButtonRecordAfter(rec, mouse_down) == [rec EXCEPT !.prev_mouse_down = mouse_down]

\* mutant: the hover colour when the cursor is elsewhere
ButtonColorIdxSwapped(hovered, ColorHoverIdx, ColorNormalIdx) ==
    IF hovered THEN ColorNormalIdx ELSE ColorHoverIdx

\* the palette index of the button's background
ButtonColorIdx(hovered, ColorHoverIdx, ColorNormalIdx) ==
    IF hovered THEN ColorHoverIdx ELSE ColorNormalIdx

\* mutant: the callback runs after the draws
ButtonCallsDrawFirst(clicked, OnClick, draws) ==
    draws \o (IF clicked THEN << [kind |-> "OnClick", fn |-> OnClick] >> ELSE << >>)

\* what a Button call issues: OnClick() on a click, then Rect and Text
ButtonCalls(clicked, OnClick, draws) ==
    (IF clicked THEN << [kind |-> "OnClick", fn |-> OnClick] >> ELSE << >>) \o draws

\* the callbacks the application passes as OnClick
Callbacks == {"Noop", "SwitchMode"}

DownPattern == <<TRUE, TRUE, FALSE, TRUE>>

\* history: the clicked results of the label's latest consecutive hovered calls that
\* sampled DownPattern, the first of them starting from prev_mouse_down = false
BtnRunNext(run, startOk, hovered, down, clicked) ==
    IF hovered /\ Len(run) \in 1..3 /\ down = DownPattern[Len(run) + 1]
    THEN Append(run, clicked)
    ELSE IF hovered /\ down /\ startOk THEN <<clicked>> ELSE << >>

\* UiManager.Button
Button(Label, Pos, FontName, OnClick, ColorTextIdx, ColorHoverIdx, ColorNormalIdx, ub) ==
    /\ phase = "up"
    /\ Running
    /\ \E B1 \in {IF Label \in DOMAIN Buttons THEN Buttons
                  ELSE DictSet(Buttons, Label, NewButtonRecord)},
          T1 \in {TextOutcome(Label, Pos, FontName, ColorTextIdx, TRUE, IsDarkMode, Fonts, ub)},
          args \in {[op |-> "Button", Label |-> Label, Pos |-> Pos,
                     ColorTextIdx |-> ColorTextIdx, ColorHoverIdx |-> ColorHoverIdx,
                     ColorNormalIdx |-> ColorNormalIdx,
                     first |-> Label \notin DOMAIN Buttons,
                     last |-> IF Label = RunLabel THEN btnLast ELSE NoSample]} :
          IF T1.raised # ""
          THEN /\ Buttons' = B1
               /\ IsDarkMode' = IsDarkMode
               /\ switches' = switches
               /\ calls' = << >>
               /\ phase' = PhaseAfter(T1.raised)
               /\ ret' = args @@ [raised |-> T1.raised]
               /\ seenUp' = seenUp
               /\ btnLast' = IF Label = RunLabel THEN NoSample ELSE btnLast
               /\ btnRun' = IF Label = RunLabel THEN << >> ELSE btnRun
          ELSE \E ButtonRect \in {ButtonRectOf(T1.rect)} :
               \E hovered \in {RectIsHover(ButtonRect)}, mouse_down \in {IsClick} :
               \E clicked \in {ClickFires(hovered, mouse_down, B1[Label])} :
               \E dark1 \in {IF clicked /\ OnClick = "SwitchMode" THEN ~IsDarkMode ELSE IsDarkMode},
                  ColorIdx \in {ButtonColorIdx(hovered, ColorHoverIdx, ColorNormalIdx)} :
               \E D \in {RunDraws(<< RectOutcome(ButtonRect.XY, ButtonRect.WH, ColorIdx, dark1),
                                     TextOutcome(Label, Pos, FontName, ColorTextIdx, FALSE,
                                                 dark1, Fonts, ub) >>)} :
                  /\ Buttons' = IF D.raised = ""
                                THEN [B1 EXCEPT ![Label] = ButtonRecordAfter(B1[Label], mouse_down)]
                                ELSE B1
                  /\ IsDarkMode' = dark1
                  /\ switches' = IF dark1 # IsDarkMode THEN (switches + 1) % 2 ELSE switches
                  /\ calls' = T1.draws \o ButtonCalls(clicked, OnClick, D.draws)
                  /\ phase' = PhaseAfter(D.raised)
                  /\ ret' = IF D.raised = ""
                            THEN args @@ [raised |-> "", rect |-> ButtonRect,
                                          clicked |-> clicked, hovered |-> hovered]
                            ELSE args @@ [raised |-> D.raised]
                  /\ seenUp' = (seenUp \/ (Label = RunLabel /\ D.raised = "" /\ ~mouse_down))
                  /\ btnLast' = IF Label # RunLabel THEN btnLast
                                ELSE IF D.raised = "" THEN Sample(hovered, mouse_down)
                                ELSE NoSample
                  /\ btnRun' = IF Label # RunLabel THEN btnRun
                               ELSE IF D.raised # "" THEN << >>
                               ELSE BtnRunNext(btnRun,
                                               Label \in DOMAIN Buttons
                                                 /\ ~Buttons[Label].prev_mouse_down,
                                               hovered, mouse_down, clicked)
    /\ UNCHANGED <<Running, Fonts, nextHandle, closed, CheckboxStates, mouse, cbLast, cbRun>>
    /\ UNCHANGED geomVars

-----------------------------------------------------------------------------
(* Checkbox *)

\* the record a label gets on its first Checkbox call
NewCheckboxRecord == [checked |-> FALSE, mouse_down |-> FALSE]

CheckboxSize == Nat2(20, 20)

\* mutant: checked flips on every hovered frame with the button down
CheckboxStepNoDebounce(rec, hovered, down) ==
    IF hovered /\ down
    THEN [checked |-> ~rec.checked, mouse_down |-> TRUE]
    ELSE [rec EXCEPT !.mouse_down = FALSE]

\* mutant: mouse_down is reset only by a release, not by leaving the box
CheckboxStepKeepOutside(rec, hovered, down) ==
    IF hovered /\ down
    THEN IF ~rec.mouse_down THEN [checked |-> ~rec.checked, mouse_down |-> TRUE] ELSE rec
    ELSE IF down THEN rec ELSE [rec EXCEPT !.mouse_down = FALSE]

\* mutant: mouse_down is kept while the cursor is outside the box
CheckboxStepLatched(rec, hovered, down) ==
    IF hovered
    THEN IF down
         THEN IF ~rec.mouse_down
              THEN [checked |-> ~rec.checked, mouse_down |-> TRUE]
              ELSE rec
         ELSE [rec EXCEPT !.mouse_down = FALSE]
    ELSE rec

\* the toggle of the record: flip once per press sampled while hovered
CheckboxStep(rec, hovered, down) ==
    IF hovered
    THEN IF down
         THEN IF ~rec.mouse_down
              THEN [checked |-> ~rec.checked, mouse_down |-> TRUE]
              ELSE rec
         ELSE [rec EXCEPT !.mouse_down = FALSE]
    ELSE [rec EXCEPT !.mouse_down = FALSE]

\* mutant: the hover tint is drawn on every hovered frame
HoverTintWhenHovered(hovered, rec) == hovered

\* the hover tint is drawn when hovered and the record, before the toggle, is unchecked
HoverTint(hovered, rec) == hovered /\ ~rec.checked

CbPattern == <<TRUE, TRUE, FALSE>>

\* history: the checked results of the label's latest consecutive hovered calls that
\* sampled CbPattern, the first of them starting unchecked and not pressed
CbRunNext(run, startOk, hovered, down, checked) ==
    IF hovered /\ Len(run) \in 1..2 /\ down = CbPattern[Len(run) + 1]
    THEN Append(run, checked)
    ELSE IF hovered /\ down /\ startOk THEN <<checked>> ELSE << >>

\* UiManager.Checkbox
Checkbox(Label, Pos, FontName, ColorBorderIdx, ColorInnerIdx, ColorInnerHoverIdx, ColorTextIdx, ub) ==
    /\ phase = "up"
    /\ Running
    /\ \E C1 \in {IF Label \in DOMAIN CheckboxStates THEN CheckboxStates
                  ELSE DictSet(CheckboxStates, Label, NewCheckboxRecord)},
          hovered \in {RectIsHover(Rect_(Pos, CheckboxSize))},
          InnerPos \in {Nat2Add(Pos, Nat2(4, 4))},
          InnerSize \in {Nat2(CheckboxSize.X - 8, CheckboxSize.Y - 8)},
          args \in {[op |-> "Checkbox", Label |-> Label, Pos |-> Pos,
                     ColorBorderIdx |-> ColorBorderIdx, ColorInnerIdx |-> ColorInnerIdx,
                     ColorInnerHoverIdx |-> ColorInnerHoverIdx,
                     ColorTextIdx |-> ColorTextIdx,
                     first |-> Label \notin DOMAIN CheckboxStates,
                     before |-> IF Label \in DOMAIN CheckboxStates
                                THEN CheckboxStates[Label] ELSE NewCheckboxRecord,
                     last |-> IF Label = CbRunLabel THEN cbLast ELSE NoSample]} :
       \E H \in {IF HoverTint(hovered, C1[Label])
                 THEN RectOutcome(InnerPos, InnerSize, ColorInnerHoverIdx, IsDarkMode)
                 ELSE Ok(<< >>)} :
          IF H.raised # ""
          THEN /\ CheckboxStates' = C1
               /\ calls' = << >>
               /\ phase' = phase
               /\ ret' = args @@ [raised |-> H.raised]
               /\ cbLast' = IF Label = CbRunLabel THEN NoSample ELSE cbLast
               /\ cbRun' = IF Label = CbRunLabel THEN << >> ELSE cbRun
          ELSE \E rec \in {CheckboxStep(C1[Label], hovered, IsClick)} :
               \E D \in {RunDraws(<< IF rec.checked
                                     THEN RectOutcome(InnerPos, InnerSize, ColorInnerIdx, IsDarkMode)
                                     ELSE Ok(<< >>) >>
                                  \o RectBorder(Pos, CheckboxSize, ColorBorderIdx, 2, IsDarkMode)
                                  \o << TextOutcome(Label,
                                                    Nat2Add(Pos, Nat2(CheckboxSize.X + 10, 0)),
                                                    FontName, ColorTextIdx, FALSE,
                                                    IsDarkMode, Fonts, ub) >>)} :
                  /\ CheckboxStates' = [C1 EXCEPT ![Label] = rec]
                  /\ calls' = H.draws \o D.draws
                  /\ phase' = PhaseAfter(D.raised)
                  /\ ret' = IF D.raised = ""
                            THEN args @@ [raised |-> "", checked |-> rec.checked,
                                          hovered |-> hovered]
                            ELSE args @@ [raised |-> D.raised]
                  /\ cbLast' = IF Label # CbRunLabel THEN cbLast
                               ELSE IF D.raised = "" THEN Sample(hovered, IsClick)
                               ELSE NoSample
                  /\ cbRun' = IF Label # CbRunLabel THEN cbRun
                              ELSE IF D.raised # "" THEN << >>
                              ELSE CbRunNext(cbRun, C1[Label] = NewCheckboxRecord,
                                             hovered, IsClick, rec.checked)
    /\ UNCHANGED <<Running, Fonts, nextHandle, closed, Buttons, IsDarkMode, mouse,
                   seenUp, btnLast, btnRun, switches>>
    /\ UNCHANGED geomVars

-----------------------------------------------------------------------------
(* PointInsideRect as a pure function of its arguments *)

Coords == {Nat2(x, y) : x \in 0..MaxCoord, y \in 0..MaxCoord}

\* the application moves the point
MovePoint(P) ==
    /\ Point' = P
    /\ inside' = "unset"
    /\ UNCHANGED <<RectPos, RectSize>>
    /\ UNCHANGED engineVars

\* UiManager.PointInsideRect applied to them
ApplyPointInsideRect ==
    /\ inside = "unset"
    /\ inside' = IF PointInsideRect(Point, RectPos, RectSize) THEN "true" ELSE "false"
    /\ UNCHANGED <<Point, RectPos, RectSize>>
    /\ UNCHANGED engineVars

-----------------------------------------------------------------------------
(* Specifications *)

\* palette indices the widgets are declared with: the defaults of the signatures,
\* and one past the end of the palette
ButtonColors == { <<2, 1, 3>>, <<2, 5, 5>> }

CheckboxColors == { <<0, 1, 2, 0>>, <<0, 1, 5, 0>> }

CheckboxLabels == {S_ok}

CheckboxPositions == {Nat2(100, 160)}

\* the application of examples/helloworld.py: fonts, then frames of widgets, then Quit
Next ==
    \/ \E f \in GoodFiles :
          LoadFont(f, "Medium", 16, FALSE, "error", MaxLoopOpens) /\ UNCHANGED frameVars
    \/ \E m \in MouseStates, q \in BOOLEAN : MainLoop(m, q) /\ UNCHANGED frameVars
    \/ SwitchMode /\ UNCHANGED frameVars
    \/ \E l \in Labels, p \in Positions, cb \in Callbacks, c \in ButtonColors :
          Button(l, p, "Medium", cb, c[1], c[2], c[3], "error") /\ UNCHANGED frameVars
    \/ \E l \in CheckboxLabels, p \in CheckboxPositions, c \in CheckboxColors :
          Checkbox(l, p, "Medium", c[1], c[2], c[3], c[4], "error") /\ UNCHANGED frameVars
    \/ ~Running /\ Quit /\ UNCHANGED frameVars

Spec == Init /\ [][Next]_vars

\* palette indices passed to the primitives: in range, negative, and out of range both ways
ColorIdxs == {-6, -5, -1, 0, 2, 4, 5}

\* the fonts examples/helloworld.py registers: name and point size
FontSpecs == { <<"Medium", 16>>, <<"Large", 32>> }

\* multi-line strings: "a\n\nb", "\nok\n", "ok", ""
WrappedStrings == {S_a_b, <<"\n">> \o S_ok \o <<"\n">>, S_ok, << >>}

\* the application drawing with the primitives only, loading fonts at any time
NextDraw ==
    \/ \E f \in AllFiles, n \in FontSpecs, b \in BOOLEAN :
          \E ub \in (IF b /\ f \notin GoodFiles THEN {"error", "crash"} ELSE {"error"}) :
             LoadFont(f, n[1], n[2], b, ub, MaxOpens) /\ UNCHANGED frameVars
    \/ SwitchMode /\ UNCHANGED frameVars
    \/ \E c \in ColorIdxs : Rect(Nat2(0, 0), Nat2(848, 480), c) /\ UNCHANGED frameVars
    \/ \E s \in {S_ok, << >>}, n \in FontNames, c \in ColorIdxs, nd \in BOOLEAN, ub \in UbOutcomes(Fonts) :
          Text(s, Nat2(10, 10), n, c, nd, ub) /\ UNCHANGED frameVars
    \/ \E s \in WrappedStrings, n \in FontNames, c \in {2, 5}, ub \in UbOutcomes(Fonts) :
          TextWrapped(s, Nat2(10, 10), n, c, ub) /\ UNCHANGED frameVars
    \/ Quit /\ UNCHANGED frameVars

SpecDraw == Init /\ [][NextDraw]_vars

\* PointInsideRect over every rectangle and point with coordinates in 0..MaxCoord
InitGeom ==
    /\ phase = "up"
    /\ Running = TRUE
    /\ Fonts = EmptyDict
    /\ nextHandle = 1
    /\ closed = EmptyDict
    /\ Buttons = EmptyDict
    /\ CheckboxStates = EmptyDict
    /\ IsDarkMode = TRUE
    /\ mouse = [X |-> 90, Y |-> 90, left |-> FALSE]
    /\ ret = NoRet
    /\ calls = << >>
    /\ seenUp = FALSE
    /\ btnLast = NoSample
    /\ cbLast = NoSample
    /\ btnRun = << >>
    /\ cbRun = << >>
    /\ switches = 0
    /\ Point = Nat2(0, 0)
    /\ RectPos \in Coords
    /\ RectSize \in Coords
    /\ inside = "unset"
    /\ prevLeft = FALSE
    /\ frameCalls = 0
    /\ lastFrame = FALSE
    /\ dragPress = FALSE
    /\ cbPressFlips = 0

NextGeom ==
    \/ \E P \in Coords : MovePoint(P) /\ UNCHANGED frameVars
    \/ ApplyPointInsideRect /\ UNCHANGED frameVars

SpecGeom == InitGeom /\ [][NextGeom]_vars

Min(a, b) == IF a < b THEN a ELSE b

\* MainLoop, with the history of the press: a release ends it
PressLoop(newMouse, quitEvent) ==
    /\ MainLoop(newMouse, quitEvent)
    /\ cbPressFlips' = IF newMouse.left THEN cbPressFlips ELSE 0
    /\ UNCHANGED <<prevLeft, frameCalls, lastFrame, dragPress>>

\* Checkbox, with the history of the press: a change of CbRunLabel's checked is a flip
PressCheckbox(Label, Pos, FontName, ColorBorderIdx, ColorInnerIdx, ColorInnerHoverIdx, ColorTextIdx, ub) ==
    /\ Checkbox(Label, Pos, FontName, ColorBorderIdx, ColorInnerIdx, ColorInnerHoverIdx,
                ColorTextIdx, ub)
    /\ cbPressFlips' = IF Label = CbRunLabel
                          /\ CheckboxStates'[Label].checked
                                # (Label \in DOMAIN CheckboxStates /\ CheckboxStates[Label].checked)
                       THEN Min(cbPressFlips + 1, 2)
                       ELSE cbPressFlips
    /\ UNCHANGED <<prevLeft, frameCalls, lastFrame, dragPress>>

\* an application declaring two buttons and two checkboxes under the same two labels,
\* each in any frame or not, and measuring or drawing a text
NextRecords ==
    \/ \E f \in GoodFiles :
          LoadFont(f, "Medium", 16, FALSE, "error", MaxLoopOpens) /\ UNCHANGED frameVars
    \/ \E m \in MouseStates, q \in BOOLEAN : PressLoop(m, q)
    \/ \E l \in Labels : Button(l, Nat2(100, 160), "Medium", "Noop", 2, 1, 3, "error")
                          /\ UNCHANGED frameVars
    \/ \E l \in Labels : PressCheckbox(l, Nat2(100, 160), "Medium", 0, 1, 2, 0, "error")
    \/ \E nd \in BOOLEAN : Text(S_ok, Nat2(10, 10), "Medium", 2, nd, "error")
                            /\ UNCHANGED frameVars

SpecRecords == Init /\ [][NextRecords]_vars

\* MainLoop, with the history of frames: a new frame begins
FrameLoop(newMouse, quitEvent) ==
    /\ MainLoop(newMouse, quitEvent)
    /\ prevLeft' = mouse.left
    /\ lastFrame' = (frameCalls > 0)
    /\ frameCalls' = 0
    /\ dragPress' = (dragPress /\ newMouse.left)
    /\ UNCHANGED cbPressFlips

\* Button, with the history of frames of RunLabel.  A press is followed from the
\* call that samples it first (the preceding call sampled the button up); it is a
\* dragged press when that call is not hovered.
FrameButton(Label, Pos, FontName, OnClick, ColorTextIdx, ColorHoverIdx, ColorNormalIdx, ub) ==
    /\ Button(Label, Pos, FontName, OnClick, ColorTextIdx, ColorHoverIdx, ColorNormalIdx, ub)
    /\ frameCalls' = IF Label = RunLabel /\ ret'.raised = ""
                     THEN Min(frameCalls + 1, 2) ELSE frameCalls
    /\ dragPress' = IF Label # RunLabel THEN dragPress
                    ELSE IF ret'.raised # "" \/ ~mouse.left THEN FALSE
                    ELSE IF btnLast.known /\ ~btnLast.down THEN ~ret'.hovered
                    ELSE dragPress
    /\ UNCHANGED <<prevLeft, lastFrame, cbPressFlips>>

\* an application declaring its buttons in any frame or not, any number of times
NextFrames ==
    \/ \E f \in GoodFiles :
          LoadFont(f, "Medium", 16, FALSE, "error", MaxLoopOpens) /\ UNCHANGED frameVars
    \/ \E m \in MouseStates, q \in BOOLEAN : FrameLoop(m, q)
    \/ \E l \in Labels, p \in Positions, cb \in Callbacks, c \in ButtonColors :
          FrameButton(l, p, "Medium", cb, c[1], c[2], c[3], "error")

SpecFrames == Init /\ [][NextFrames]_vars

-----------------------------------------------------------------------------
(* Properties *)

IsPrefix(a, b) == Len(a) <= Len(b) /\ \A i \in 1..Len(a) : a[i] = b[i]

ButtonReturned == ret.op = "Button" /\ ret.raised = ""

CheckboxReturned == ret.op = "Checkbox" /\ ret.raised = ""

\* C1: a Button call that returns, for a label whose previous Button call returned,
\* has clicked = hovered and mouseDown and not (mouseDown sampled by that previous
\* call); and consecutive hovered calls that sample [down, down, up, down], starting
\* from a record whose prev_mouse_down is false, return [true, false, false, true].
C1_ClickOnEdge ==
    /\ (ButtonReturned /\ ret.last.known)
          => ret.clicked = (ret.hovered /\ mouse.left /\ ~ret.last.down)
    /\ IsPrefix(btnRun, <<TRUE, FALSE, FALSE, TRUE>>)

C1_Witness == btnRun = <<TRUE, FALSE, FALSE, TRUE>>

\* C2: the first Button call of a label creates the record with prev_mouse_down =
\* true (it is left so when the call raises) and never returns clicked = true, also
\* with the pointer held down and hovering; a call returns clicked = true only after
\* an earlier call of the label has returned with the button up.
C2_PrePressedGuard ==
    ret.op = "Button" =>
        /\ (ret.first /\ ret.raised = "") => ~ret.clicked
        /\ (ret.first /\ ret.raised # "") => Buttons[ret.Label] = [active |-> TRUE, mouse_down |-> TRUE, prev_mouse_down |-> TRUE]
        /\ (ret.raised = "" /\ ret.clicked /\ ret.Label = RunLabel) => seenUp

C2_Witness ==
    ButtonReturned /\ ret.first /\ ret.hovered /\ mouse.left /\ ~ret.clicked

\* C3: a checkbox record is created unchecked; a returning Checkbox call that is
\* hovered with the button down, right after a returning call of the label that was
\* hovered with the button down too, leaves checked as it was; and the calls
\* hover+down, hover+down, hover+up from an unchecked, unpressed record return
\* checked = true, true, true.
C3_ToggleOncePerHold ==
    /\ (CheckboxReturned /\ ret.first) => (ret.before.checked = FALSE /\ ret.checked = (ret.hovered /\ mouse.left))
    /\ (CheckboxReturned /\ ret.last.known /\ ret.last.hovered /\ ret.last.down
          /\ ret.hovered /\ mouse.left) => ret.checked = ret.before.checked
    /\ IsPrefix(cbRun, <<TRUE, TRUE, TRUE>>)

C3_Witness == cbRun = <<TRUE, TRUE, TRUE>>

\* the number of OnClick invocations in a log
OnClickCount(log) == Cardinality({i \in 1..Len(log) : log[i].kind = "OnClick"})

\* C4: a Button call that returns invokes OnClick once if it returns clicked = true
\* and not at all otherwise; no Button call invokes it more than once or after a draw;
\* when the callback is SwitchMode the mode is flipped, and the background rectangle
\* and the label of that call are drawn in the colors of the mode after the flip.
C4_CallbackBeforePaint ==
    [][ ret'.op = "Button" =>
          /\ OnClickCount(calls') <= 1
          /\ OnClickCount(calls') = 1 => calls'[1].kind = "OnClick"
          /\ IsDarkMode' = IF OnClickCount(calls') = 1 /\ calls'[1].fn = "SwitchMode"
                           THEN ~IsDarkMode ELSE IsDarkMode
          /\ ret'.raised = "" =>
                LET n == OnClickCount(calls')
                    pal == ColorPaletteMode(IsDarkMode')
                IN  /\ n = IF ret'.clicked THEN 1 ELSE 0
                    /\ Len(calls') = n + 2
                    /\ calls'[n + 1].kind = "rect"
                    /\ calls'[n + 1].color =
                          ToSdl2Color(PyIndex(pal, IF ret'.hovered THEN ret'.ColorHoverIdx
                                                   ELSE ret'.ColorNormalIdx))
                    /\ calls'[n + 2].kind = "text"
                    /\ calls'[n + 2].color = ToSdl2Color(PyIndex(pal, ret'.ColorTextIdx))
      ]_vars

C4_Witness ==
    /\ ButtonReturned /\ ret.clicked
    /\ calls[1].kind = "OnClick" /\ calls[1].fn = "SwitchMode"
    /\ ~IsDarkMode
    /\ calls[2].color = ToSdl2Color(ColorPalette[Len(ColorPalette) - ret.ColorHoverIdx])

\* C5: after a Button call that returns, the label's prev_mouse_down is the button
\* state sampled by the call, hovered or not, clicked or not; so when the previous
\* call saw the button up with the cursor off the button, a press while hovering
\* returns clicked = true.
C5_PrevIsSample ==
    ButtonReturned =>
        /\ Buttons[ret.Label].prev_mouse_down = mouse.left
        /\ (ret.last.known /\ ~ret.last.hovered /\ ~ret.last.down /\ ret.hovered /\ mouse.left)
              => ret.clicked

C5_Witness ==
    /\ ButtonReturned /\ seenUp
    /\ ret.last = Sample(FALSE, FALSE)
    /\ ret.hovered /\ mouse.left /\ ret.clicked

\* C6: a Checkbox call that returns steps the record by the debounce rule: hovered,
\* down and mouse_down false: checked flips and mouse_down becomes true; hovered, down
\* and mouse_down true: nothing changes; otherwise mouse_down becomes false and
\* checked is unchanged. A press held since a frame outside the box toggles on the
\* first hovered frame.
C6_DebounceRule ==
    CheckboxReturned =>
        LET pre == ret.before
            post == CheckboxStates[ret.Label]
        IN  /\ (ret.hovered /\ mouse.left /\ ~pre.mouse_down)
                  => post = [checked |-> ~pre.checked, mouse_down |-> TRUE]
            /\ (ret.hovered /\ mouse.left /\ pre.mouse_down) => post = pre
            /\ ~(ret.hovered /\ mouse.left)
                  => post = [checked |-> pre.checked, mouse_down |-> FALSE]
            /\ ret.checked = post.checked
            /\ (ret.last.known /\ ret.last.down /\ ~ret.last.hovered /\ ret.hovered /\ mouse.left)
                  => ret.checked = ~pre.checked

C6_Witness ==
    /\ CheckboxReturned
    /\ ret.last = Sample(FALSE, TRUE)
    /\ ret.hovered /\ mouse.left
    /\ ret.checked # ret.before.checked

PrimitiveCalled == ret.op \in {"Rect", "Text"}

\* C7, as stated: Rect and Text fail with IndexError for every index outside
\* [0, len(palette)), negative ones included, and issue no draw call.
C7_NoWraparound ==
    (PrimitiveCalled /\ ret.ColorIdx \notin 0..(Len(ColorPalette) - 1))
        => (ret.raised = "IndexError" /\ calls = << >>)

\* C7, amended: Rect and Text fail with IndexError, issuing no draw call, for every
\* index >= len(palette) or < -len(palette), in both modes; an index in
\* [-len(palette), -1] does not fail: it resolves to entry len(palette) + idx of the
\* active mode's list, and Rect draws with it.
C7_PythonIndexing ==
    PrimitiveCalled =>
        LET n == Len(ColorPalette)
            idx == ret.ColorIdx
        IN  /\ (idx >= n \/ idx < -n) => (ret.raised = "IndexError" /\ calls = << >>)
            /\ idx \in (-n)..(-1) =>
                  /\ ret.raised # "IndexError"
                  /\ ret.op = "Rect" => (ret.raised = "" /\ Len(calls) = 1)
                  /\ calls # << >> =>
                        calls[1].color = ToSdl2Color(ColorPaletteMode(IsDarkMode)[n + idx + 1])

C7_Witness ==
    /\ ret.op = "Rect" /\ ret.ColorIdx = -1 /\ ~IsDarkMode
    /\ Len(calls) = 1 /\ calls[1].color = ToSdl2Color(ColorPalette[1])

\* how often TTF_CloseFont was called on the handle numbered h
TimesClosed(h) ==
    IF \E f \in DOMAIN closed : f.h = h
    THEN closed[CHOOSE f \in DOMAIN closed : f.h = h]
    ELSE 0

\* C8: after Quit every font handle that was opened has been released exactly once,
\* and nothing but an opened handle has been released.
C8_ReleasedExactlyOnce ==
    phase = "quit" =>
        /\ \A h \in 1..(nextHandle - 1) : TimesClosed(h) = 1
        /\ \A f \in DOMAIN closed : f = NullFont \/ f.h \in 1..(nextHandle - 1)

\* C9: PointInsideRect is true exactly for the points with pos.X <= p.X <= pos.X +
\* size.X and pos.Y <= p.Y <= pos.Y + size.Y: true on the four edges and corners,
\* false for every point 1 or more outside on either axis.
C9_InclusiveBounds ==
    inside # "unset" =>
        LET xs == RectPos.X..(RectPos.X + RectSize.X)
            ys == RectPos.Y..(RectPos.Y + RectSize.Y)
            onEdge == /\ Point.X \in xs /\ Point.Y \in ys
                      /\ \/ Point.X \in {RectPos.X, RectPos.X + RectSize.X}
                         \/ Point.Y \in {RectPos.Y, RectPos.Y + RectSize.Y}
            outside == \/ Point.X <= RectPos.X - 1 \/ Point.X >= RectPos.X + RectSize.X + 1
                       \/ Point.Y <= RectPos.Y - 1 \/ Point.Y >= RectPos.Y + RectSize.Y + 1
        IN  /\ (inside = "true") <=> (Point.X \in xs /\ Point.Y \in ys)
            /\ onEdge => inside = "true"
            /\ outside => inside = "false"

C9_Witness ==
    /\ inside = "true"
    /\ RectSize.X > 0 /\ RectSize.Y > 0
    /\ Point = Nat2(RectPos.X + RectSize.X, RectPos.Y + RectSize.Y)

\* C10: for every index in [0, len(palette)) Rect and Text draw with palette[idx] in
\* dark mode and with palette[len-1-idx] in light mode; the mode is dark after an
\* even number of SwitchMode calls and light after an odd number.
C10_ReversedPalette ==
    /\ IsDarkMode <=> (switches = 0)
    /\ (PrimitiveCalled /\ ret.ColorIdx \in 0..(Len(ColorPalette) - 1) /\ calls # << >>)
          => calls[1].color =
                ToSdl2Color(IF IsDarkMode THEN ColorPalette[ret.ColorIdx + 1]
                            ELSE ColorPalette[Len(ColorPalette) - ret.ColorIdx])
    /\ (ret.op = "Rect" /\ ret.ColorIdx \in 0..(Len(ColorPalette) - 1)) => Len(calls) = 1

C10_Witness ==
    /\ ret.op = "Rect" /\ ret.ColorIdx = 0 /\ ~IsDarkMode
    /\ Len(calls) = 1 /\ calls[1].color = ToSdl2Color(ColorPalette[5])

\* the draw calls among the calls of the last operation
Draws == SelectSeq(calls, LAMBDA c : c.kind # "OnClick")

\* the colour a palette index selects in the current mode
PaletteColor(idx) == ToSdl2Color(PyIndex(ColorPaletteMode(IsDarkMode), idx))

\* C11: every Button call that returns returns the measured text rectangle grown by 10
\* on every side: top-left = position + (-10, -10), size = text size + (20, 20); and
\* its hovered flag is true exactly when the cursor is inside that rectangle, all four
\* edges included.
C11_PaddedRect ==
    ButtonReturned =>
        \E T \in {MeasureText(ret.Label, Fonts["Medium"])} :
           /\ ret.rect.XY = Nat2(ret.Pos.X - 10, ret.Pos.Y - 10)
           /\ ret.rect.WH = Nat2(T.X + 20, T.Y + 20)
           /\ ret.hovered <=> /\ ret.Pos.X - 10 <= mouse.X
                              /\ mouse.X <= ret.Pos.X + T.X + 10
                              /\ ret.Pos.Y - 10 <= mouse.Y
                              /\ mouse.Y <= ret.Pos.Y + T.Y + 10

\* a hovered call with the cursor on the top-left corner of the padded rectangle
C11_Witness ==
    /\ ButtonReturned
    /\ ret.hovered
    /\ mouse.X = ret.Pos.X - 10
    /\ mouse.Y = ret.Pos.Y - 10

\* C12: every Button call that returns issues exactly two draw calls, in this order:
\* a filled rectangle covering the padded rectangle in the hover colour when hovered
\* and in the normal colour otherwise, then the label text at the unpadded position;
\* the measuring pass draws nothing.
C12_TwoDraws ==
    ButtonReturned =>
        /\ Len(Draws) = 2
        /\ Draws[1].kind = "rect"
        /\ Draws[1].pos = ret.rect.XY
        /\ Draws[1].size = ret.rect.WH
        /\ Draws[1].color = PaletteColor(IF ret.hovered THEN ret.ColorHoverIdx
                                         ELSE ret.ColorNormalIdx)
        /\ Draws[2].kind = "text"
        /\ Draws[2].str = ret.Label
        /\ Draws[2].pos = ret.Pos
        /\ Draws[2].color = PaletteColor(ret.ColorTextIdx)

\* a hovered call that clicked, its two draws after the callback
C12_Witness ==
    /\ ButtonReturned
    /\ ret.hovered
    /\ ret.clicked
    /\ Len(calls) = 3
    /\ Len(Draws) = 2

\* a palette index's colour, or a colour no draw has when the index is out of range
ColorOrNone(idx) ==
    IF PyIndexOk(ColorPaletteMode(IsDarkMode), idx) THEN PaletteColor(idx)
    ELSE [r |-> -1, g |-> -1, b |-> -1, a |-> -1]

FillDraw(Pos, idx) ==
    [kind |-> "rect", pos |-> Nat2(Pos.X + 4, Pos.Y + 4), size |-> Nat2(12, 12),
     color |-> ColorOrNone(idx)]

StripDraw(x, y, w, h, idx) ==
    [kind |-> "rect", pos |-> Nat2(x, y), size |-> Nat2(w, h), color |-> ColorOrNone(idx)]

\* the draws of a Checkbox call: the fills asked for, the four border strips of
\* thickness 2 (top, left, bottom, right), the label at position + (30, 0)
CheckboxDraws(hoverFill, checkedFill) ==
    (IF hoverFill THEN << FillDraw(ret.Pos, ret.ColorInnerHoverIdx) >> ELSE << >>)
    \o (IF checkedFill THEN << FillDraw(ret.Pos, ret.ColorInnerIdx) >> ELSE << >>)
    \o << StripDraw(ret.Pos.X, ret.Pos.Y, 20, 2, ret.ColorBorderIdx),
          StripDraw(ret.Pos.X, ret.Pos.Y, 2, 20, ret.ColorBorderIdx),
          StripDraw(ret.Pos.X, ret.Pos.Y + 18, 20, 2, ret.ColorBorderIdx),
          StripDraw(ret.Pos.X + 18, ret.Pos.Y, 2, 20, ret.ColorBorderIdx),
          [kind |-> "text", str |-> ret.Label, pos |-> Nat2(ret.Pos.X + 30, ret.Pos.Y),
           size |-> MeasureText(ret.Label, Fonts["Medium"]),
           color |-> ColorOrNone(ret.ColorTextIdx)] >>

\* C13 as stated: in every Checkbox call that returns, with checked the value the
\* call returns, the hover-tint fill is drawn exactly when the box is hovered and
\* unchecked, the checked fill exactly when checked, then the four border strips of
\* thickness 2, then the label at position + (30, 0).
C13_FillsByReturnedChecked ==
    CheckboxReturned => calls = CheckboxDraws(ret.hovered /\ ~ret.checked, ret.checked)

\* C13: in every Checkbox call that returns, the hover-tint fill is drawn exactly when
\* the box is hovered and the record was unchecked when the call began (before the
\* call's own toggle); the checked fill is drawn exactly when the returned value is
\* checked, after the hover fill when both are drawn; the four border strips of
\* thickness 2 are drawn after the fills and the label last at position + (30, 0).
C13_FillsByCheckedBefore ==
    CheckboxReturned =>
        calls = CheckboxDraws(ret.hovered /\ ~ret.before.checked, ret.checked)

\* the frame that checks the box draws both fills, the hover tint first
C13_Witness ==
    /\ CheckboxReturned
    /\ ret.hovered
    /\ ~ret.before.checked
    /\ ret.checked
    /\ Len(calls) = 7
    /\ calls[1] = FillDraw(ret.Pos, ret.ColorInnerHoverIdx)
    /\ calls[2] = FillDraw(ret.Pos, ret.ColorInnerIdx)

\* the pieces joined by newlines
RECURSIVE Join(_)
Join(L) == IF Len(L) = 1 THEN L[1] ELSE L[1] \o <<"\n">> \o Join(Tail(L))

\* the 0-based numbers of the non-empty lines
NonEmptyIdx(L) == {i \in 0..(Len(L) - 1) : L[i + 1] # << >>}

\* C14: a TextWrapped call that returns has split its string on newline (the lines,
\* joined by newlines, are the string and none contains a newline) and has drawn
\* exactly the non-empty lines, in increasing order of their 0-based number i with
\* the empty lines counted, line i at position + (0, 16 * i); "a\n\nb" gives exactly
\* two text draws, at vertical offsets 0 and 32.
C14_WrappedLines ==
    (ret.op = "TextWrapped" /\ ret.raised = "") =>
        \E L \in {Split(ret.Str)} :
           /\ Join(L) = ret.Str
           /\ \A i \in 1..Len(L) : \A j \in 1..Len(L[i]) : L[i][j] # "\n"
           /\ Len(calls) = Cardinality(NonEmptyIdx(L))
           /\ \A i \in NonEmptyIdx(L) :
                 \E k \in {1 + Cardinality({j \in NonEmptyIdx(L) : j < i})} :
                    /\ calls[k].kind = "text"
                    /\ calls[k].str = L[i + 1]
                    /\ calls[k].pos = Nat2(ret.Pos.X, ret.Pos.Y + 16 * i)
           /\ ret.Str = S_a_b =>
                 /\ Len(calls) = 2
                 /\ calls[1].str = <<"a">> /\ calls[1].pos = ret.Pos
                 /\ calls[2].str = <<"b">> /\ calls[2].pos = Nat2(ret.Pos.X, ret.Pos.Y + 32)

\* "a\n\nb" was drawn
C14_Witness ==
    /\ ret.op = "TextWrapped"
    /\ ret.raised = ""
    /\ ret.Str = S_a_b
    /\ Len(calls) = 2

\* C15: for the same string, position, font and colour index, a Text call with NoDraw
\* set returns the rectangle (position and size) that the call without NoDraw
\* returns; the call with NoDraw set issues no draw call where the other issues one;
\* and no Text call changes a widget record.
C15_NoDrawMeasures ==
    [][ret'.op = "Text" =>
         /\ Buttons' = Buttons
         /\ CheckboxStates' = CheckboxStates
         /\ ret'.NoDraw => calls' = << >>
         /\ (ret'.raised = "" /\ ~ret'.NoDraw) => Len(calls') = 1
         /\ ( /\ ret.op = "Text" /\ ret.raised = "" /\ ret'.raised = ""
              /\ ret.Str = ret'.Str /\ ret.Pos = ret'.Pos
              /\ ret.FontName = ret'.FontName /\ ret.ColorIdx = ret'.ColorIdx
              /\ ret.NoDraw # ret'.NoDraw )
            => ret'.rect = ret.rect
       ]_vars

\* a measuring Text call has returned with widget records of both kinds in place
C15_Witness ==
    /\ ret.op = "Text"
    /\ ret.raised = ""
    /\ ret.NoDraw
    /\ ret.rect = Rect_(Nat2(10, 10), Nat2(16, 16))
    /\ calls = << >>
    /\ DOMAIN Buttons = Labels
    /\ DOMAIN CheckboxStates = Labels

OnClickInvoked == \E i \in 1..Len(calls) : calls[i].kind = "OnClick"

\* C16: while a press that the button first sampled with the cursor off the button
\* is held, no Button call of the label returns clicked = true or invokes OnClick,
\* also once the cursor has been dragged onto the button.
C16_NoClickOnDragIn ==
    (ButtonReturned /\ ret.Label = RunLabel /\ dragPress)
        => (~ret.clicked /\ ~OnClickInvoked)

\* the dragged press is over the button, who was declared in the preceding frame too
C16_Witness ==
    /\ ButtonReturned
    /\ ret.Label = RunLabel
    /\ dragPress
    /\ ret.hovered
    /\ mouse.left
    /\ prevLeft
    /\ lastFrame
    /\ ret.last = Sample(FALSE, TRUE)

\* C17 as stated: a Button call returns clicked = true only in a frame in which the
\* left button is down and was up in the immediately preceding frame, whether the
\* label was declared in that frame or not.
C17_ClickOnlyOnFrameEdge ==
    (ButtonReturned /\ ret.clicked) => (mouse.left /\ ~prevLeft)

\* C19: a Button call of a label that follows, in the same frame, a Button call of
\* that label that returned, never returns clicked = true and never invokes OnClick,
\* whatever its position and hover state.
C19_SecondCallSilent ==
    (ButtonReturned /\ ret.Label = RunLabel /\ frameCalls = 2)
        => (~ret.clicked /\ ~OnClickInvoked)

\* a second call in a frame, hovered with the button down, in a frame that began a press
C19_Witness ==
    /\ ButtonReturned
    /\ ret.Label = RunLabel
    /\ frameCalls = 2
    /\ ret.hovered
    /\ mouse.left
    /\ ~prevLeft
    /\ ~ret.clicked

\* the operation that has just run is a call of the widget kind for label l
Declares(kind, l) == ret'.op = kind /\ ret'.Label = l

\* C18: a step changes or creates the button record of a label only if it is a Button
\* call of that label, and the checkbox record of a label only if it is a Checkbox
\* call of that label (so a button and a checkbox of one label have separate
\* records); and a label that has a record of a kind keeps one.  Hence checked and
\* prev_mouse_down are unchanged across frames in which the label is not declared.
C18_RecordsIsolated ==
    [][/\ DOMAIN Buttons \subseteq DOMAIN Buttons'
       /\ DOMAIN CheckboxStates \subseteq DOMAIN CheckboxStates'
       /\ \A l \in DOMAIN Buttons' :
             Declares("Button", l) \/ (l \in DOMAIN Buttons /\ Buttons'[l] = Buttons[l])
       /\ \A l \in DOMAIN CheckboxStates' :
             Declares("Checkbox", l)
                \/ (l \in DOMAIN CheckboxStates /\ CheckboxStates'[l] = CheckboxStates[l])
      ]_vars

\* a new frame has begun with four records in place: the button and the checkbox of
\* one label differ from those of the other, and the checkbox is checked
C18_Witness ==
    /\ ret.op = "MainLoop"
    /\ DOMAIN Buttons = Labels
    /\ DOMAIN CheckboxStates = Labels
    /\ Buttons[S_ok].prev_mouse_down
    /\ ~Buttons[S_menu].prev_mouse_down
    /\ CheckboxStates[S_ok].checked
    /\ ~CheckboxStates[S_menu].checked

\* C20: a Checkbox call that returns with the box not hovered leaves mouse_down false
\* in the record, also with the button held; so a hovered call with the button held
\* that follows a not hovered call of the label flips checked, and one press can flip
\* the same checkbox more than once.
C20_ResetOutside ==
    CheckboxReturned =>
        /\ ~ret.hovered => ~CheckboxStates[ret.Label].mouse_down
        /\ (ret.last.known /\ ~ret.last.hovered /\ ret.hovered /\ mouse.left)
              => ret.checked # ret.before.checked
        /\ cbPressFlips = 2 => mouse.left

\* the press being held has flipped the checkbox twice
C20_Witness ==
    /\ CheckboxReturned
    /\ ret.Label = CbRunLabel
    /\ mouse.left
    /\ ret.last = Sample(FALSE, TRUE)
    /\ ret.hovered
    /\ cbPressFlips = 2

====
